---- MODULE Spec2Model ----
(***************************************************************************)
(* State machine of the ESP32 smart presence lamp firmware                 *)
(* (ESP32_PresenceSmartHub_clean.ino): the WebSocket command handler, the  *)
(* control loop (geofence feed, button, date check, priority dispatch),    *)
(* the animation kernels and the state snapshot.                           *)
(*                                                                         *)
(* The program state is held in one record, S, with a field per global of  *)
(* the sketch.  Every C function is an operator from a state record to a   *)
(* state record, so that the sequential composition of the code is the      *)
(* composition of operators; an action commits the final record.           *)
(***************************************************************************)
EXTENDS Integers, Sequences, FiniteSets, TLC

(***************************************************************************)
(* Program constants                                                       *)
(***************************************************************************)
NUM_LEDS == 19

EFFECT_BREATH == 0
EFFECT_FAVORITE == 1
EFFECT_NIGHT == 2
EFFECT_WEATHER == 3
EFFECT_STATIC == 4
EFFECT_PRIVATE_PULSE == 5

GEO_NONE == 0
GEO_ARRIVED == 1
GEO_SETTLED == 2
GEO_LEAVE == 3
GEO_DRIVING == 4

DAY_START_HOUR == 7
NIGHT_START_HOUR == 21

HIGH == 1
LOW == 0

\* dates[]: the calendar of special events, in the order of the sketch.
dates ==
  << [month |-> 1,  day |-> 1,  name |-> "NewYear"],
     [month |-> 2,  day |-> 14, name |-> "Valentines"],
     [month |-> 2,  day |-> 22, name |-> "HerBirthday"],
     [month |-> 5,  day |-> 3,  name |-> "HisBirthday"],
     [month |-> 8,  day |-> 7,  name |-> "Anniversary"],
     [month |-> 12, day |-> 25, name |-> "Christmas"] >>

\* The sketch indexes dates[] from 0; index i of the sketch is dates[i + 1].
numDates == Len(dates)

\* PRIVATE_PULSE_CODE of secrets.h: the pre-shared secret.
PRIVATE_PULSE_CODE == "s3cret"

\* A JSON member is [t |-> "str", v |-> text], [t |-> "int", v |-> number] or
\* absent.
Absent == [t |-> "null"]

(***************************************************************************)
(* Text: Arduino String and C string functions, character by character     *)
(***************************************************************************)
UpperChars == "ABCDEFGHIJKLMNOPQRSTUVWXYZ"
LowerChars == "abcdefghijklmnopqrstuvwxyz"
HexChars == "0123456789ABCDEF"

Chr(s, i) == SubSeq(s, i, i)

\* Position of character c in str, 0 when absent.
IndexOf(c, str) ==
  IF \E i \in 1..Len(str) : Chr(str, i) = c
    THEN CHOOSE i \in 1..Len(str) : Chr(str, i) = c
    ELSE 0

\* tolower() of each upper-case letter.
LowerOf ==
  [c \in {Chr(UpperChars, i) : i \in 1..Len(UpperChars)} |->
     Chr(LowerChars, IndexOf(c, UpperChars))]

LowerChar(c) == IF c \in DOMAIN LowerOf THEN LowerOf[c] ELSE c

RECURSIVE ToLowerCase(_)
\* String::toLowerCase
ToLowerCase(s) ==
  IF Len(s) = 0 THEN s
  ELSE LowerChar(Chr(s, 1)) \o ToLowerCase(SubSeq(s, 2, Len(s)))

\* The value of each hexadecimal digit, in either case.
HexOf ==
  [c \in {Chr(HexChars, i) : i \in 1..Len(HexChars)}
            \cup {LowerChar(Chr(HexChars, i)) : i \in 1..Len(HexChars)} |->
     IF IndexOf(c, HexChars) > 0 THEN IndexOf(c, HexChars) - 1
     ELSE CHOOSE v \in 10..15 : LowerChar(Chr(HexChars, v + 1)) = c]

\* Value of a hexadecimal digit, -1 for any other character.
HexVal(c) == IF c \in DOMAIN HexOf THEN HexOf[c] ELSE -1

RECURSIVE HexDigitsValue(_, _)
\* The digits loop of strtol(.., 16): accumulate until the first non-digit.
HexDigitsValue(s, acc) ==
  IF Len(s) = 0 \/ HexVal(Chr(s, 1)) < 0 THEN acc
  ELSE HexDigitsValue(SubSeq(s, 2, Len(s)), acc * 16 + HexVal(Chr(s, 1)))

RECURSIVE SkipSpaces(_)
SkipSpaces(s) ==
  IF Len(s) > 0 /\ Chr(s, 1) = " " THEN SkipSpaces(SubSeq(s, 2, Len(s))) ELSE s

\* strtol(s, NULL, 16): leading blanks, an optional sign, an optional 0x
\* prefix, then the longest run of hexadecimal digits (0 when there is none).
Strtol16(s) ==
  LET t    == SkipSpaces(s)
      neg  == Len(t) > 0 /\ Chr(t, 1) = "-"
      u    == IF Len(t) > 0 /\ Chr(t, 1) \in {"-", "+"} THEN SubSeq(t, 2, Len(t)) ELSE t
      pre  == Len(u) > 2 /\ Chr(u, 1) = "0" /\ Chr(u, 2) \in {"x", "X"}
                /\ HexVal(Chr(u, 3)) >= 0
      d    == IF pre THEN SubSeq(u, 3, Len(u)) ELSE u
      v    == HexDigitsValue(d, 0)
  IN  IF neg THEN 0 - v ELSE v

RECURSIVE HexFormat(_, _)
\* n as exactly k upper-case hexadecimal digits (printf "%0kX", n < 16^k).
HexFormat(n, k) ==
  IF k = 0 THEN ""
  ELSE HexFormat(n \div 16, k - 1) \o Chr(HexChars, (n % 16) + 1)

\* snprintf(hexColor, 8, "#%06X", color & 0x00FFFFFF)
FormatColor(color) == "#" \o HexFormat(color % 16777216, 6)

\* constrain(x, lo, hi)
\* No clamping: the value goes through as it is.
constrainNothing(x, lo, hi) == x

constrain(x, lo, hi) == IF x < lo THEN lo ELSE IF x > hi THEN hi ELSE x

abs(x) == IF x < 0 THEN 0 - x ELSE x

\* (uint8_t) x
U8(x) == x % 256

(***************************************************************************)
(* Adafruit_NeoPixel: the strip object.  Its state is the pixel RAM        *)
(* (s.pixels, one packed 0xRRGGBB value per pixel, as stored) and the      *)
(* library's brightness byte (s.stripBrightness = requested value + 1      *)
(* modulo 256, so 0 means full brightness, no scaling).  show() pushes the *)
(* RAM to the LEDs and changes no state.                                   *)
(***************************************************************************)
Pix == 0..(NUM_LEDS - 1)

Red(c) == (c \div 65536) % 256
Green(c) == (c \div 256) % 256
Blue(c) == c % 256

\* Adafruit_NeoPixel::Color
Color(r, g, b) == U8(r) * 65536 + U8(g) * 256 + U8(b)

\* One channel as setPixelColor stores it under brightness byte sb.
ScaleChannel(v, sb) == IF sb # 0 THEN (v * sb) \div 256 ELSE v

\* One channel as getPixelColor reports it under brightness byte sb.
UnscaleChannel(v, sb) == IF sb # 0 THEN ((v * 256) \div sb) % 256 ELSE v

StoredColor(c, sb) ==
  Color(ScaleChannel(Red(c), sb), ScaleChannel(Green(c), sb), ScaleChannel(Blue(c), sb))

\* strip.setPixelColor(n, c): out-of-range n is ignored.
setPixelColor(s, n, c) ==
  IF n \in Pix
    THEN [s EXCEPT !.pixels[n] = StoredColor(c, s.stripBrightness)]
    ELSE s

\* strip.getPixelColor(n)
getPixelColor(s, n) ==
  IF n \notin Pix THEN 0
  ELSE LET p == s.pixels[n]
           sb == s.stripBrightness
       IN  Color(UnscaleChannel(Red(p), sb), UnscaleChannel(Green(p), sb),
                 UnscaleChannel(Blue(p), sb))

\* strip.fill(c, first, count): count = 0 means to the end of the strip.
fill(s, c, first, count) ==
  LET end == IF count = 0 \/ first + count > NUM_LEDS THEN NUM_LEDS ELSE first + count
  IN  [s EXCEPT !.pixels =
         [i \in Pix |-> IF i >= first /\ i < end
                          THEN StoredColor(c, s.stripBrightness)
                          ELSE s.pixels[i]]]

\* strip.clear()
clear(s) == [s EXCEPT !.pixels = [i \in Pix |-> 0]]

\* strip.getBrightness()
getBrightness(s) == (s.stripBrightness + 255) % 256

\* The rescale factor of setBrightness(b) from the old brightness byte.
BrightnessScale(b, sb) ==
  LET oldBrightness == (sb + 255) % 256
  IN  IF oldBrightness = 0 THEN 0
      ELSE IF b = 255 THEN 65535 \div oldBrightness
      ELSE ((((b + 1) % 256) * 256) - 1) \div oldBrightness

RescaleChannel(v, scale) == U8((v * scale) \div 256)

\* strip.setBrightness(b): rescales the pixel RAM in place when the value
\* changes, then stores b + 1.
setBrightness(s, b) ==
  LET newBrightness == (b + 1) % 256
      scale == BrightnessScale(b, s.stripBrightness)
  IN  IF newBrightness = s.stripBrightness THEN s
      ELSE [s EXCEPT
              !.pixels = [i \in Pix |->
                 Color(RescaleChannel(Red(s.pixels[i]), scale),
                       RescaleChannel(Green(s.pixels[i]), scale),
                       RescaleChannel(Blue(s.pixels[i]), scale))],
              !.stripBrightness = newBrightness]

\* The hue sextant arithmetic of Adafruit_NeoPixel::ColorHSV.
HsvRgb(h) ==
  IF h < 510 THEN
    IF h < 255 THEN <<255, h, 0>> ELSE <<510 - h, 255, 0>>
  ELSE IF h < 1020 THEN
    IF h < 765 THEN <<0, 255, h - 510>> ELSE <<0, 1020 - h, 255>>
  ELSE IF h < 1530 THEN
    IF h < 1275 THEN <<h - 1020, 0, 255>> ELSE <<255, 0, 1530 - h>>
  ELSE <<255, 0, 0>>

\* Adafruit_NeoPixel::ColorHSV(hue, sat, val)
ColorHSV(hue, sat, val) ==
  LET h   == (hue * 1530 + 32768) \div 65536
      rgb == HsvRgb(h)
      v1  == 1 + val
      s1  == 1 + sat
      s2  == 255 - sat
      ch(x) == ((((x * s1) \div 256) + s2) * v1) \div 256
  IN  Color(ch(rgb[1]), ch(rgb[2]), ch(rgb[3]))

\* for (i = first; i < end; i++) setPixelColor(i, F(getPixelColor(i))):
\* each pixel is read back (unscaled) and rewritten (scaled) on its own.
mapPixels(s, first, end, F(_)) ==
  [s EXCEPT !.pixels =
     [i \in Pix |-> IF i >= first /\ i < end
                      THEN StoredColor(F(getPixelColor(s, i)), s.stripBrightness)
                      ELSE s.pixels[i]]]

\* One channel of fadeStripToBlackBy: (v * (256 - fadeAmount)) >> 8
FadeChannel(v, fadeAmount) == U8((v * (256 - fadeAmount)) \div 256)

\* fadeStripToBlackBy(strip, fadeAmount)
fadeStripToBlackBy(s, fadeAmount) ==
  LET F(c) == Color(FadeChannel(Red(c), fadeAmount), FadeChannel(Green(c), fadeAmount),
                    FadeChannel(Blue(c), fadeAmount))
  IN  mapPixels(s, 0, NUM_LEDS, F)

(***************************************************************************)
(* Program state                                                           *)
(***************************************************************************)
VARIABLES
  currentEffect,            \* Effect currentEffect
  currentGeoState,          \* GeoState currentGeoState
  currentWeatherCondition,  \* String currentWeatherCondition
  currentTemperature,       \* float currentTemperature (whole degrees here)
  sinceStateStart,          \* millis() - currentStateStart while an override
                            \* is present (saturated), 0 while there is none
  animPos, animBrightness, animStep,
  pulseStep, brightnessStep, brightness,
  stateDuration, lastButtonState, staticColorBrightness,
  lastPlayedDay,            \* int lastPlayedDay[numDates], indexed from 0
  dateActive, activeEventIndex,
  drivingOn,                \* static bool on of runDriving
  pixels, stripBrightness,  \* the Adafruit_NeoPixel object
  today,                    \* the wall clock's date: [month, day]
  timeValid,                \* getLocalTime succeeds (the clock has been set)
  dateSeen,                 \* a date check has read today's date
  sent,                     \* snapshots broadcast by the last step, in order
  reply,                    \* snapshots sent to the requesting client alone
  rendered,                 \* kernels dispatched by the last step, in order
  frames,                   \* animation frames drawn so far
  startsToday,              \* calls of startSpecialEvent since the date changed
  loopAt                    \* where the loop task stands: "top", or the kernel
                            \* its dispatch has chosen and not yet run

\* The lamp's state, and with the clock of the override the program's.
lampVars ==
  << currentEffect, currentGeoState, currentWeatherCondition, currentTemperature,
     animPos, animBrightness, animStep,
     pulseStep, brightnessStep, brightness, stateDuration, lastButtonState,
     staticColorBrightness, lastPlayedDay, dateActive, activeEventIndex,
     drivingOn, pixels, stripBrightness >>

progVars == << lampVars, sinceStateStart >>

envVars == << today, timeValid, dateSeen >>

outVars == << sent, reply, rendered, frames >>

histVars == << startsToday >>

taskVars == << loopAt >>

vars == << progVars, envVars, outVars, histVars, taskVars >>

\* The program state as one record.
S ==
  [ currentEffect |-> currentEffect, currentGeoState |-> currentGeoState,
    currentWeatherCondition |-> currentWeatherCondition,
    currentTemperature |-> currentTemperature,
    sinceStateStart |-> sinceStateStart,
    animPos |-> animPos, animBrightness |-> animBrightness, animStep |-> animStep,
    pulseStep |-> pulseStep, brightnessStep |-> brightnessStep,
    brightness |-> brightness, stateDuration |-> stateDuration,
    lastButtonState |-> lastButtonState,
    staticColorBrightness |-> staticColorBrightness,
    lastPlayedDay |-> lastPlayedDay, dateActive |-> dateActive,
    activeEventIndex |-> activeEventIndex, drivingOn |-> drivingOn,
    pixels |-> pixels, stripBrightness |-> stripBrightness,
    sent |-> sent, reply |-> reply, rendered |-> rendered, frames |-> frames,
    startsToday |-> startsToday ]

\* The step's final record becomes the next state.
Commit(t) ==
  /\ currentEffect' = t.currentEffect
  /\ currentGeoState' = t.currentGeoState
  /\ currentWeatherCondition' = t.currentWeatherCondition
  /\ currentTemperature' = t.currentTemperature
  /\ sinceStateStart' = t.sinceStateStart
  /\ animPos' = t.animPos
  /\ animBrightness' = t.animBrightness
  /\ animStep' = t.animStep
  /\ pulseStep' = t.pulseStep
  /\ brightnessStep' = t.brightnessStep
  /\ brightness' = t.brightness
  /\ stateDuration' = t.stateDuration
  /\ lastButtonState' = t.lastButtonState
  /\ staticColorBrightness' = t.staticColorBrightness
  /\ lastPlayedDay' = t.lastPlayedDay
  /\ dateActive' = t.dateActive
  /\ activeEventIndex' = t.activeEventIndex
  /\ drivingOn' = t.drivingOn
  /\ pixels' = t.pixels
  /\ stripBrightness' = t.stripBrightness
  /\ sent' = t.sent
  /\ reply' = t.reply
  /\ rendered' = t.rendered
  /\ frames' = t.frames
  /\ startsToday' = t.startsToday

\* A step starts with nothing sent and no kernel dispatched.
Begin(s) == [s EXCEPT !.sent = << >>, !.reply = << >>, !.rendered = << >>]

(***************************************************************************)
(* State snapshot                                                          *)
(***************************************************************************)
modeName(effect) ==
  CASE effect = EFFECT_BREATH -> "breath"
    [] effect = EFFECT_FAVORITE -> "favorite"
    [] effect = EFFECT_NIGHT -> "night"
    [] effect = EFFECT_WEATHER -> "weather"
    [] effect = EFFECT_STATIC -> "static"
    [] effect = EFFECT_PRIVATE_PULSE -> "pulse"
    [] OTHER -> "Unknown"

NoField == [x \in {} |-> 0]

\* A snapshot that names the color of the first pixel in every mode.
getCurrentStateJsonWithColor(s) ==
  [ mode |-> modeName(s.currentEffect),
    brightness |->
      IF s.currentEffect = EFFECT_BREATH THEN s.brightness
      ELSE IF s.currentEffect = EFFECT_STATIC THEN s.staticColorBrightness
      ELSE getBrightness(s),
    color |-> FormatColor(getPixelColor(s, 0)) ]
  @@ (IF s.currentEffect = EFFECT_WEATHER
        THEN [weather |-> s.currentWeatherCondition]
        ELSE NoField)

\* getCurrentStateJson(): the document that is serialized.
getCurrentStateJson(s) ==
  [ mode |-> modeName(s.currentEffect),
    brightness |->
      IF s.currentEffect = EFFECT_BREATH THEN s.brightness
      ELSE IF s.currentEffect = EFFECT_STATIC THEN s.staticColorBrightness
      ELSE getBrightness(s) ]
  @@ (IF s.currentEffect = EFFECT_STATIC
        THEN [color |-> FormatColor(getPixelColor(s, 0))]
        ELSE NoField)
  @@ (IF s.currentEffect = EFFECT_WEATHER
        THEN [weather |-> s.currentWeatherCondition]
        ELSE NoField)

\* broadcastState(): ws.textAll(getCurrentStateJson())
broadcastState(s) == [s EXCEPT !.sent = Append(@, getCurrentStateJson(s))]

(***************************************************************************)
(* WebSocket handler                                                       *)
(***************************************************************************)
\* A JSON member read as const char* is non-null exactly for a string.
IsCString(v) == v.t = "str"

\* doc.containsKey("value") && doc["value"].is<int>()
IsInt(v) == v.t = "int"

setcolor(s, doc) ==
  LET colorVal == doc.value
  IN  IF IsCString(colorVal) /\ Len(colorVal.v) = 7 /\ Chr(colorVal.v, 1) = "#" THEN
        LET number == Strtol16(SubSeq(colorVal.v, 2, 7))
            r == (number \div 65536) % 256
            g == (number \div 256) % 256
            b == number % 256
        IN  broadcastState(
              fill([s EXCEPT !.currentEffect = EFFECT_STATIC], Color(r, g, b), 0, 0))
      ELSE IF IsCString(colorVal) /\ colorVal.v = "off" THEN
        broadcastState(clear([s EXCEPT !.currentEffect = EFFECT_STATIC]))
      ELSE s

setbrightness(s, doc) ==
  IF IsInt(doc.value) THEN
    LET brightnessVal == constrain(doc.value.v, 0, 255)
        s1 == [s EXCEPT !.staticColorBrightness = U8(brightnessVal)]
        s2 == IF s1.currentEffect = EFFECT_STATIC
                THEN LET currentColor == getPixelColor(s1, 0)
                     IN  setBrightness(
                           fill(setBrightness(s1, s1.staticColorBrightness),
                                currentColor, 0, 0),
                           255)
                ELSE s1
    IN  broadcastState(s2)
  ELSE s

setmode(s, doc) ==
  LET modeVal == doc.value
  IN  IF IsCString(modeVal) THEN
        LET modeStr == ToLowerCase(modeVal.v)
            newEffect ==
              IF modeStr = "breath" THEN EFFECT_BREATH
              ELSE IF modeStr = "favorite" THEN EFFECT_FAVORITE
              ELSE IF modeStr = "night" THEN EFFECT_NIGHT
              ELSE IF modeStr = "weather" THEN EFFECT_WEATHER
              ELSE s.currentEffect
        IN  IF newEffect # s.currentEffect THEN
              LET s1 == [s EXCEPT !.currentEffect = newEffect]
                  s2 == IF s1.currentEffect = EFFECT_BREATH
                          THEN [s1 EXCEPT !.brightness = 0, !.brightnessStep = 5]
                          ELSE s1
              IN  broadcastState(clear(s2))
            ELSE s
      ELSE s

\* A reply that goes to every client.
replyStateToAll(s) == [s EXCEPT !.sent = Append(@, getCurrentStateJson(s))]

\* client->text(getCurrentStateJson())
replyState(s) == [s EXCEPT !.reply = Append(@, getCurrentStateJson(s))]

\* A pulse that asks for a secret but does not compare it.
privatepulseAnySecret(s, doc) ==
  LET secretVal == doc.secret
  IN  IF IsCString(secretVal)
        THEN broadcastState(
               [s EXCEPT !.currentEffect = EFFECT_PRIVATE_PULSE, !.pulseStep = 0])
        ELSE s

privatepulse(s, doc) ==
  LET secretVal == doc.secret
  IN  IF IsCString(secretVal) /\ secretVal.v = PRIVATE_PULSE_CODE
        THEN broadcastState(
               [s EXCEPT !.currentEffect = EFFECT_PRIVATE_PULSE, !.pulseStep = 0])
        ELSE s

\* A handler that answers an action it does not know with the state.
handleCommandAnswering(s, doc) ==
  LET action == doc.action
  IN  IF ~IsCString(action) THEN s
      ELSE LET actionStr == ToLowerCase(action.v)
           IN  IF actionStr = "setcolor" THEN setcolor(s, doc)
               ELSE IF actionStr = "setbrightness" THEN setbrightness(s, doc)
               ELSE IF actionStr = "setmode" THEN setmode(s, doc)
               ELSE IF actionStr = "privatepulse" THEN privatepulse(s, doc)
               ELSE replyState(s)

\* The body of onWsEvent for a parsed document.
handleCommand(s, doc) ==
  LET action == doc.action
  IN  IF ~IsCString(action) THEN s
      ELSE LET actionStr == ToLowerCase(action.v)
           IN  IF actionStr = "setcolor" THEN setcolor(s, doc)
               ELSE IF actionStr = "setbrightness" THEN setbrightness(s, doc)
               ELSE IF actionStr = "setmode" THEN setmode(s, doc)
               ELSE IF actionStr = "getstate" THEN replyState(s)
               ELSE IF actionStr = "privatepulse" THEN privatepulse(s, doc)
               ELSE s

\* onWsEvent: a connect, or a data frame (whole = one final unfragmented
\* text frame; parsed = deserializeJson succeeded, giving doc).
onWsEvent(s, ev) ==
  IF ev.type = "WS_EVT_CONNECT" THEN replyState(s)
  ELSE IF ev.type = "WS_EVT_DATA" THEN
    IF ev.whole /\ ev.parsed THEN handleCommand(s, ev.doc) ELSE s
  ELSE s

(***************************************************************************)
(* Core logic                                                              *)
(***************************************************************************)
\* updateWeather().  w is what the call meets: due (the 15 minute gate, or
\* the first call), wifi (WL_CONNECTED), http (response code > 0), json (the
\* body parses), main and temp (the members of the body).
updateWeather(s, w) ==
  IF ~w.due THEN s
  ELSE IF ~w.wifi THEN [s EXCEPT !.currentWeatherCondition = "Offline"]
  ELSE IF ~w.http \/ ~w.json THEN [s EXCEPT !.currentWeatherCondition = "Error"]
  ELSE [s EXCEPT
          !.currentWeatherCondition = IF IsCString(w.main) THEN w.main.v ELSE @,
          !.currentTemperature = IF w.temp.t = "int" THEN w.temp.v ELSE @]

\* A start that announces nothing.
startSpecialEventSilent(s, index) ==
  IF index < 0 \/ index >= numDates THEN s
  ELSE [s EXCEPT !.dateActive = TRUE, !.activeEventIndex = index,
                 !.animPos = 0, !.animBrightness = 0, !.animStep = 8,
                 !.startsToday = @ + 1]

\* A start that also drops the geofence override.
startSpecialEventDroppingOverride(s, index) ==
  IF index < 0 \/ index >= numDates THEN s
  ELSE broadcastState(
         [s EXCEPT !.dateActive = TRUE, !.activeEventIndex = index,
                   !.animPos = 0, !.animBrightness = 0, !.animStep = 8,
                   !.currentGeoState = GEO_NONE,
                   !.startsToday = @ + 1])

startSpecialEvent(s, index) ==
  IF index < 0 \/ index >= numDates THEN s
  ELSE broadcastState(
         [s EXCEPT !.dateActive = TRUE, !.activeEventIndex = index,
                   !.animPos = 0, !.animBrightness = 0, !.animStep = 8,
                   !.startsToday = @ + 1])

\* The first calendar entry that matches the date, -1 when there is none.
matchingIndexOf(date) ==
  LET hits == {i \in 0..(numDates - 1) :
                 date.month = dates[i + 1].month /\ date.day = dates[i + 1].day}
  IN  IF hits = {} THEN -1 ELSE CHOOSE i \in hits : \A j \in hits : i <= j

\* A check that does not consult lastPlayedDay.
checkStartDateUnremembered(s, ok, date) ==
  IF ~ok THEN s
  ELSE LET currentDay == date.day
           matchingIndex == matchingIndexOf(date)
       IN  IF matchingIndex >= 0 THEN
             IF s.dateActive /\ s.activeEventIndex = matchingIndex THEN s
             ELSE [startSpecialEvent(s, matchingIndex)
                     EXCEPT !.lastPlayedDay[matchingIndex] = currentDay]
           ELSE IF s.dateActive THEN
             broadcastState(
               clear([s EXCEPT !.dateActive = FALSE, !.activeEventIndex = -1]))
           ELSE s

\* checkStartDate().  ok: getLocalTimeChecked succeeded; date: what it read.
checkStartDate(s, ok, date) ==
  IF ~ok THEN s
  ELSE LET currentDay == date.day
           matchingIndex == matchingIndexOf(date)
       IN  IF matchingIndex >= 0 THEN
             IF s.dateActive /\ s.activeEventIndex = matchingIndex THEN s
             ELSE IF s.lastPlayedDay[matchingIndex] # currentDay THEN
               [startSpecialEvent(s, matchingIndex)
                  EXCEPT !.lastPlayedDay[matchingIndex] = currentDay]
             ELSE s
           ELSE IF s.dateActive THEN
             broadcastState(
               clear([s EXCEPT !.dateActive = FALSE, !.activeEventIndex = -1]))
           ELSE s

(***************************************************************************)
(* Animation kernels.  A kernel reads k, what this call meets: due (its    *)
(* millis() gate has elapsed), dueColor (the second gate of favColor),     *)
(* isDay (isDayTime()), and the draws of random(): hit (random(n) == 0),   *)
(* pos, pos2, pos3 (pixel positions) and hue.                              *)
(***************************************************************************)
\* The kernel is entered ...
Call(s, name) == [s EXCEPT !.rendered = Append(@, name)]

\* ... and draws a frame.
Frame(s) == [s EXCEPT !.frames = @ + 1]

\* setTempIndicator(temperature)
setTempIndicator(s, temperature) ==
  LET color == IF temperature <= 40 THEN Color(0, 0, 150)
               ELSE IF temperature <= 70 THEN Color(0, 150, 150)
               ELSE IF temperature <= 85 THEN Color(150, 150, 0)
               ELSE Color(200, 50, 0)
  IN  fill(s, color, NUM_LEDS - 4, 4)

ANIMATION_LEDS == NUM_LEDS - 4

weatherClear(s, k) ==
  LET baseColor == IF k.isDay THEN Color(0, 50, 200) ELSE Color(0, 0, 80)
      sparkleColor == IF k.isDay THEN Color(255, 200, 0) ELSE Color(100, 100, 0)
      s1 == fill(s, baseColor, 0, ANIMATION_LEDS)
      s2 == IF k.hit
              THEN LET s2a == setPixelColor(s1, k.pos, sparkleColor)
                   IN  IF k.pos > 0 THEN setPixelColor(s2a, k.pos - 1, Color(30, 30, 30))
                       ELSE s2a
              ELSE s1
      Decay(c) == Color((Red(c) * 245) \div 256, (Green(c) * 245) \div 256,
                        (Blue(c) * 240) \div 256)
  IN  setBrightness(mapPixels(s2, 0, ANIMATION_LEDS, Decay), IF k.isDay THEN 255 ELSE 150)

\* One of the three brightening steps of the clouds branch.
cloudPuff(s, pos, isDay) ==
  LET current == getPixelColor(s, pos)
      addR == IF isDay THEN 20 ELSE 5
      addG == IF isDay THEN 20 ELSE 5
      addB == IF isDay THEN 20 ELSE 10
      sat(v, a) == IF v + a > 255 THEN 255 ELSE v + a
  IN  setPixelColor(s, pos, Color(sat(Red(current), addR), sat(Green(current), addG),
                                  sat(Blue(current), addB)))

weatherClouds(s, k) ==
  LET s1 == fadeStripToBlackBy(s, 5)
      s2 == cloudPuff(cloudPuff(cloudPuff(s1, k.pos, k.isDay), k.pos2, k.isDay),
                      k.pos3, k.isDay)
      baseColor == IF k.isDay THEN Color(50, 50, 50) ELSE Color(10, 10, 20)
      s3 == [s2 EXCEPT !.pixels =
               [i \in Pix |-> IF i < ANIMATION_LEDS /\ getPixelColor(s2, i) = 0
                                THEN StoredColor(baseColor, s2.stripBrightness)
                                ELSE s2.pixels[i]]]
  IN  setBrightness(s3, IF k.isDay THEN 200 ELSE 120)

weatherRain(s, k) ==
  LET fadeAmount == IF k.isDay THEN 40 ELSE 20
      rainColor == IF k.isDay THEN Color(0, 50, 200) ELSE Color(0, 0, 100)
  IN  setBrightness(setPixelColor(fadeStripToBlackBy(s, fadeAmount), k.pos, rainColor),
                    IF k.isDay THEN 200 ELSE 120)

weatherThunderstorm(s, k) ==
  LET bgColor == IF k.isDay THEN Color(20, 20, 40) ELSE Color(0, 0, 10)
  IN  IF k.hit
        THEN fill(setBrightness(fill(s, Color(255, 255, 255), 0, ANIMATION_LEDS), 255),
                  bgColor, 0, ANIMATION_LEDS)
        ELSE setBrightness(fill(s, bgColor, 0, ANIMATION_LEDS),
                           IF k.isDay THEN 150 ELSE 80)

weatherSnow(s, k) ==
  LET fadeAmount == IF k.isDay THEN 30 ELSE 15
      snowColor == IF k.isDay THEN Color(200, 200, 200) ELSE Color(80, 80, 100)
  IN  setBrightness(setPixelColor(fadeStripToBlackBy(s, fadeAmount), k.pos, snowColor),
                    IF k.isDay THEN 200 ELSE 150)

weatherDefault(s, k) ==
  LET defaultColor == IF k.isDay THEN Color(50, 50, 50) ELSE Color(10, 10, 10)
  IN  setBrightness(fill(s, defaultColor, 0, ANIMATION_LEDS),
                    IF k.isDay THEN 100 ELSE 30)

runWeatherMode(s, k) ==
  IF ~k.due THEN Call(s, "runWeatherMode")
  ELSE
    LET s0 == [Frame(Call(s, "runWeatherMode"))
                 EXCEPT !.currentWeatherCondition = ToLowerCase(@)]
        c  == s0.currentWeatherCondition
        s1 == IF c = "clear" THEN weatherClear(s0, k)
              ELSE IF c = "clouds" THEN weatherClouds(s0, k)
              ELSE IF c = "rain" \/ c = "drizzle" THEN weatherRain(s0, k)
              ELSE IF c = "thunderstorm" THEN weatherThunderstorm(s0, k)
              ELSE IF c = "snow" THEN weatherSnow(s0, k)
              ELSE weatherDefault(s0, k)
    IN  setTempIndicator(s1, s1.currentTemperature)

HUE_MIN == 30000
HUE_MAX == 60000

\* The hue of pixel i in favColor (the offset is a uint32_t; it does not wrap
\* for the values of animPos a run reaches here).
favHue(pos, i) ==
  LET totalOffset == (pos * 700) + (i * 1000)
      restrictedOffset == (((totalOffset % 65536) * (HUE_MAX - HUE_MIN)) \div 65536) % 65536
  IN  (HUE_MIN + restrictedOffset) % 65536

\* favColor(): the Breath kernel.
favColor(s, k) ==
  LET s0 == setBrightness(Call(s, "favColor"), 255)
      s1 == IF k.dueColor
              THEN LET b == s0.brightness + s0.brightnessStep
                   IN  IF b >= 255
                         THEN [s0 EXCEPT !.brightness = 255,
                                         !.brightnessStep = 0 - abs(@)]
                       ELSE IF b <= 50
                         THEN [s0 EXCEPT !.brightness = 50, !.brightnessStep = abs(@)]
                       ELSE [s0 EXCEPT !.brightness = b]
              ELSE s0
      s2 == IF k.due
              THEN [s1 EXCEPT
                      !.pixels = [i \in Pix |->
                         StoredColor(ColorHSV(favHue(s1.animPos, i), 155, U8(s1.brightness)),
                                     s1.stripBrightness)],
                      !.animPos = @ + 1]
              ELSE s1
  IN  IF k.due \/ k.dueColor THEN Frame(s2) ELSE s2

privatePulse(s, k) ==
  IF ~k.due THEN Call(s, "privatePulse")
  ELSE LET s0 == Frame(Call(s, "privatePulse"))
           phase == s0.pulseStep % (NUM_LEDS * 2)
           s1 == IF phase < NUM_LEDS
                   THEN setPixelColor(s0, phase, Color(255, 105, 180))
                   ELSE setPixelColor(s0, (NUM_LEDS * 2 - 1) - phase, Color(255, 0, 0))
       IN  [s1 EXCEPT !.pulseStep = @ + 1]

\* runArrive() without the turn of line 533: the step keeps its sign.
runArriveNoTurn(s, k) ==
  IF ~k.due THEN Call(s, "runArrive")
  ELSE LET s0 == Frame(Call(s, "runArrive"))
           b  == s0.brightness + s0.brightnessStep
           s1 == [s0 EXCEPT !.brightness = b]
       IN  fill(s1, Color(0, b, 0), 0, NUM_LEDS)

runArrive(s, k) ==
  IF ~k.due THEN Call(s, "runArrive")
  ELSE LET s0 == Frame(Call(s, "runArrive"))
           b  == s0.brightness + s0.brightnessStep
           s1 == [s0 EXCEPT !.brightness = b,
                            !.brightnessStep = IF b <= 0 \/ b >= 255 THEN 0 - @ ELSE @]
       IN  fill(s1, Color(0, b, 0), 0, NUM_LEDS)

runSettled(s, k) == fill(Call(s, "runSettled"), Color(127, 100, 64), 0, NUM_LEDS)

runLeave(s, k) ==
  IF ~k.due THEN Call(s, "runLeave")
  ELSE LET s0 == Frame(Call(s, "runLeave"))
           b  == s0.brightness + s0.brightnessStep
           s1 == [s0 EXCEPT !.brightness = b,
                            !.brightnessStep = IF b <= 0 \/ b >= 255 THEN 0 - @ ELSE @]
       IN  fill(s1, Color(0, 0, b), 0, NUM_LEDS)

runDriving(s, k) ==
  IF ~k.due THEN Call(s, "runDriving")
  ELSE LET s0 == [Frame(Call(s, "runDriving")) EXCEPT !.drivingOn = ~@]
       IN  fill(s0, IF s0.drivingOn THEN Color(255, 255, 0) ELSE Color(0, 0, 0),
                0, NUM_LEDS)

runGenerativeSparkle(s, k) ==
  IF ~k.due THEN Call(s, "runGenerativeSparkle")
  ELSE LET s0 == fadeStripToBlackBy(Frame(Call(s, "runGenerativeSparkle")), 20)
       IN  IF k.hit THEN setPixelColor(s0, k.pos, ColorHSV(k.hue, 255, 255)) ELSE s0

runNightMode(s, k) ==
  IF ~k.due THEN Call(s, "runNightMode")
  ELSE setBrightness(
         fill(Frame(Call(s, "runNightMode")), Color(100, 70, 20), 0, NUM_LEDS), 30)

(***************************************************************************)
(* Special-date kernels                                                    *)
(***************************************************************************)
\* A marching highlight pixel p over a solid background.
marching(s, p, highlight, background) ==
  [s EXCEPT !.pixels =
     [i \in Pix |-> StoredColor(IF i = p THEN highlight ELSE background,
                                s.stripBrightness)],
            !.animPos = @ + 1]

animChristmas(s, k) ==
  IF ~k.due THEN s
  ELSE marching(Frame(s), s.animPos % NUM_LEDS, Color(0, 160, 0), Color(160, 0, 0))

animAnni(s, k) ==
  IF ~k.due THEN s
  ELSE LET a  == s.animBrightness + s.animStep
           s1 == [Frame(s) EXCEPT !.animBrightness = a,
                                  !.animStep = IF a <= 0 \/ a >= 255 THEN 0 - @ ELSE @]
           b  == U8(a)
       IN  fill(s1, Color(U8((255 * b) \div 255), U8((80 * b) \div 255),
                          U8((150 * b) \div 255)), 0, NUM_LEDS)

animValentines(s, k) ==
  IF ~k.due THEN s
  ELSE marching(Frame(s), s.animPos % NUM_LEDS, Color(255, 105, 180), Color(255, 0, 0))

animIndependence(s, k) ==
  IF ~k.due THEN s
  ELSE LET cycle == s.animPos % 3
           color == IF cycle = 0 THEN Color(255, 0, 0)
                    ELSE IF cycle = 1 THEN Color(255, 255, 255)
                    ELSE Color(0, 0, 255)
       IN  [fill(Frame(s), color, 0, NUM_LEDS) EXCEPT !.animPos = @ + 1]

animHerBirthday(s, k) ==
  IF ~k.due THEN s
  ELSE marching(Frame(s), s.animPos % NUM_LEDS, Color(255, 105, 180), Color(40, 0, 80))

animHisBirthday(s, k) ==
  IF ~k.due THEN s
  ELSE marching(Frame(s), s.animPos % NUM_LEDS, Color(150, 150, 150), Color(0, 0, 255))

runActiveSpecialAnimation(s, k) ==
  IF ~s.dateActive \/ s.activeEventIndex < 0 THEN s
  ELSE LET name == dates[s.activeEventIndex + 1].name
           s0 == Call(s, "runActiveSpecialAnimation")
       IN  IF name = "Christmas" THEN animChristmas(s0, k)
           ELSE IF name = "Valentines" THEN animValentines(s0, k)
           ELSE IF name = "NewYear" THEN animIndependence(s0, k)
           ELSE IF name = "HerBirthday" THEN animHerBirthday(s0, k)
           ELSE IF name = "HisBirthday" THEN animHisBirthday(s0, k)
           ELSE IF name = "Anniversary" THEN animAnni(s0, k)
           ELSE animChristmas(s0, k)

(***************************************************************************)
(* The control loop                                                        *)
(***************************************************************************)
\* The largest stateDuration: past it the clock of the override saturates.
MAX_STATE_DURATION == 15000

Min(a, b) == IF a < b THEN a ELSE b

\* dt milliseconds pass.  The clock of the override is read only while an
\* override is present, and every event that starts one resets it.
Elapse(s, dt) ==
  [s EXCEPT !.sinceStateStart =
     IF s.currentGeoState = GEO_NONE THEN 0 ELSE Min(@ + dt, MAX_STATE_DURATION)]

\* One message of the geofence feed.
handleGeofence(s, payload) ==
  LET message == ToLowerCase(payload)
      s1 == IF message = "arrive" THEN
              [s EXCEPT !.currentGeoState = GEO_ARRIVED, !.sinceStateStart = 0,
                        !.stateDuration = 15000, !.brightness = 0, !.brightnessStep = 5]
            ELSE IF message = "settled" THEN
              [s EXCEPT !.currentGeoState = GEO_SETTLED, !.sinceStateStart = 0,
                        !.stateDuration = 10000]
            ELSE IF message = "leave" THEN
              [s EXCEPT !.currentGeoState = GEO_LEAVE, !.sinceStateStart = 0,
                        !.stateDuration = 8000, !.brightness = 0, !.brightnessStep = 5]
            ELSE IF message = "driving" THEN
              [s EXCEPT !.currentGeoState = GEO_DRIVING, !.sinceStateStart = 0,
                        !.stateDuration = 10000]
            ELSE IF message = "pulse" \/ message = "missyou" THEN
              broadcastState(
                [s EXCEPT !.currentEffect = EFFECT_PRIVATE_PULSE, !.pulseStep = 0])
            ELSE s
  IN  broadcastState(s1)

RECURSIVE MqttIncoming(_, _)
\* while ((subscription = mqtt.readSubscription(10))) ...
MqttIncoming(s, msgs) ==
  IF msgs = << >> THEN s
  ELSE MqttIncoming(handleGeofence(s, Head(msgs)), Tail(msgs))

\* A button block that looks at the Pulse mode before the special date.
ButtonLogicPulseFirst(s, currentButtonState, w) ==
  LET s1 ==
        IF s.lastButtonState = HIGH /\ currentButtonState = LOW THEN
          IF s.currentEffect = EFFECT_PRIVATE_PULSE THEN
            broadcastState(
              clear(setBrightness(
                [s EXCEPT !.currentEffect = EFFECT_BREATH,
                          !.brightness = 60, !.brightnessStep = 5], 255)))
          ELSE IF s.dateActive THEN
            LET s2 == IF s.activeEventIndex >= 0 /\ s.activeEventIndex < numDates
                        THEN [s EXCEPT !.lastPlayedDay[s.activeEventIndex] =
                                          dates[s.activeEventIndex + 1].day]
                        ELSE s
            IN  broadcastState(
                  setBrightness(
                    clear([s2 EXCEPT !.dateActive = FALSE, !.activeEventIndex = -1]),
                    255))
          ELSE
            LET s2 == [s EXCEPT !.currentEffect = (@ + 1) % 4]
                s3 == IF s2.currentEffect = EFFECT_BREATH
                        THEN setBrightness(
                               [s2 EXCEPT !.brightness = 60, !.brightnessStep = 5], 255)
                      ELSE IF s2.currentEffect = EFFECT_WEATHER THEN updateWeather(s2, w)
                      ELSE s2
            IN  broadcastState(clear(s3))
        ELSE s
  IN  [s1 EXCEPT !.lastButtonState = currentButtonState]

\* A button block whose rotation runs over the Static mode as well.
ButtonLogicOverStatic(s, currentButtonState, w) ==
  LET s1 ==
        IF s.lastButtonState = HIGH /\ currentButtonState = LOW THEN
          IF s.dateActive THEN
            LET s2 == IF s.activeEventIndex >= 0 /\ s.activeEventIndex < numDates
                        THEN [s EXCEPT !.lastPlayedDay[s.activeEventIndex] =
                                          dates[s.activeEventIndex + 1].day]
                        ELSE s
            IN  broadcastState(
                  setBrightness(
                    clear([s2 EXCEPT !.dateActive = FALSE, !.activeEventIndex = -1]),
                    255))
          ELSE IF s.currentEffect = EFFECT_PRIVATE_PULSE THEN
            broadcastState(
              clear(setBrightness(
                [s EXCEPT !.currentEffect = EFFECT_BREATH,
                          !.brightness = 60, !.brightnessStep = 5], 255)))
          ELSE
            LET s2 == [s EXCEPT !.currentEffect = (@ + 1) % 5]
                s3 == IF s2.currentEffect = EFFECT_BREATH
                        THEN setBrightness(
                               [s2 EXCEPT !.brightness = 60, !.brightnessStep = 5], 255)
                      ELSE IF s2.currentEffect = EFFECT_WEATHER THEN updateWeather(s2, w)
                      ELSE s2
            IN  broadcastState(clear(s3))
        ELSE s
  IN  [s1 EXCEPT !.lastButtonState = currentButtonState]

\* The button block of loop().
ButtonLogic(s, currentButtonState, w) ==
  LET s1 ==
        IF s.lastButtonState = HIGH /\ currentButtonState = LOW THEN
          IF s.dateActive THEN
            LET s2 == IF s.activeEventIndex >= 0 /\ s.activeEventIndex < numDates
                        THEN [s EXCEPT !.lastPlayedDay[s.activeEventIndex] =
                                          dates[s.activeEventIndex + 1].day]
                        ELSE s
            IN  broadcastState(
                  setBrightness(
                    clear([s2 EXCEPT !.dateActive = FALSE, !.activeEventIndex = -1]),
                    255))
          ELSE IF s.currentEffect = EFFECT_PRIVATE_PULSE THEN
            broadcastState(
              clear(setBrightness(
                [s EXCEPT !.currentEffect = EFFECT_BREATH,
                          !.brightness = 60, !.brightnessStep = 5], 255)))
          ELSE
            LET s2 == [s EXCEPT !.currentEffect = (@ + 1) % 4]
                s3 == IF s2.currentEffect = EFFECT_BREATH
                        THEN setBrightness(
                               [s2 EXCEPT !.brightness = 60, !.brightnessStep = 5], 255)
                      ELSE IF s2.currentEffect = EFFECT_WEATHER THEN updateWeather(s2, w)
                      ELSE s2
            IN  broadcastState(clear(s3))
        ELSE s
  IN  [s1 EXCEPT !.lastButtonState = currentButtonState]

\* The once-a-minute block of loop().  checking: DATE_CHECK_INTERVAL has
\* elapsed since the last check (a gate like those of the kernels: when it
\* opens is the environment's choice).
DateCheck(s, checking, ok, date, w) ==
  IF checking THEN updateWeather(checkStartDate(s, ok, date), w) ELSE s

\* An expiry that waits for the duration to be exceeded.
GeoOverrideLate(s, k) ==
  LET s1 == IF s.currentGeoState = GEO_ARRIVED THEN runArrive(s, k)
            ELSE IF s.currentGeoState = GEO_SETTLED THEN runSettled(s, k)
            ELSE IF s.currentGeoState = GEO_LEAVE THEN runLeave(s, k)
            ELSE IF s.currentGeoState = GEO_DRIVING THEN runDriving(s, k)
            ELSE s
  IN  IF s1.sinceStateStart > s1.stateDuration
        THEN broadcastState(clear([s1 EXCEPT !.currentGeoState = GEO_NONE]))
        ELSE s1

\* An expiry that announces nothing.
GeoOverrideSilent(s, k) ==
  LET s1 == IF s.currentGeoState = GEO_ARRIVED THEN runArrive(s, k)
            ELSE IF s.currentGeoState = GEO_SETTLED THEN runSettled(s, k)
            ELSE IF s.currentGeoState = GEO_LEAVE THEN runLeave(s, k)
            ELSE IF s.currentGeoState = GEO_DRIVING THEN runDriving(s, k)
            ELSE s
  IN  IF s1.sinceStateStart >= s1.stateDuration
        THEN clear([s1 EXCEPT !.currentGeoState = GEO_NONE])
        ELSE s1

\* The geofence block of loop(): the kernel, then the expiry test.
GeoOverride(s, k) ==
  LET s1 == IF s.currentGeoState = GEO_ARRIVED THEN runArrive(s, k)
            ELSE IF s.currentGeoState = GEO_SETTLED THEN runSettled(s, k)
            ELSE IF s.currentGeoState = GEO_LEAVE THEN runLeave(s, k)
            ELSE IF s.currentGeoState = GEO_DRIVING THEN runDriving(s, k)
            ELSE s
  IN  IF s1.sinceStateStart >= s1.stateDuration
        THEN broadcastState(clear([s1 EXCEPT !.currentGeoState = GEO_NONE]))
        ELSE s1

\* The main effects switch of loop().
MainEffects(s, k) ==
  IF s.currentEffect = EFFECT_BREATH THEN favColor(s, k)
  ELSE IF s.currentEffect = EFFECT_FAVORITE THEN runGenerativeSparkle(s, k)
  ELSE IF s.currentEffect = EFFECT_NIGHT THEN runNightMode(s, k)
  ELSE IF s.currentEffect = EFFECT_WEATHER THEN runWeatherMode(s, k)
  ELSE s

\* A dispatch that tests the Pulse mode before the geofence override.
DispatchPulseFirst(s, k) ==
  IF s.dateActive THEN runActiveSpecialAnimation(s, k)
  ELSE IF s.currentEffect = EFFECT_PRIVATE_PULSE THEN privatePulse(s, k)
  ELSE IF s.currentGeoState # GEO_NONE THEN GeoOverride(s, k)
  ELSE MainEffects(s, k)

\* A dispatch that tests the geofence override before the special date.
DispatchGeoFirst(s, k) ==
  IF s.currentGeoState # GEO_NONE THEN GeoOverride(s, k)
  ELSE IF s.dateActive THEN runActiveSpecialAnimation(s, k)
  ELSE IF s.currentEffect = EFFECT_PRIVATE_PULSE THEN privatePulse(s, k)
  ELSE MainEffects(s, k)

\* The dispatch at the end of loop().
Dispatch(s, k) ==
  IF s.dateActive THEN runActiveSpecialAnimation(s, k)
  ELSE IF s.currentGeoState # GEO_NONE THEN GeoOverride(s, k)
  ELSE IF s.currentEffect = EFFECT_PRIVATE_PULSE THEN privatePulse(s, k)
  ELSE MainEffects(s, k)

\* One iteration of loop().  in is what the iteration meets: msgs (the
\* pending geofence messages), currentButtonState (the level of the button
\* pin), w1 (the weather call of the button block), checking (the date check
\* is due), ok and date (the wall clock), w2 (the weather call of the date
\* block) and k (the kernel call).
loop(s, in) ==
  LET s1 == MqttIncoming(s, in.msgs)
      s2 == ButtonLogic(s1, in.currentButtonState, in.w1)
      s3 == DateCheck(s2, in.checking, in.ok, in.date, in.w2)
  IN  Dispatch(s3, in.k)

(***************************************************************************)
(* Bounds: the inputs the environment offers                               *)
(***************************************************************************)
\* Time passes in steps of TimeStep milliseconds between loop iterations.
TimeStep == 5000

\* At most MaxMsgs geofence messages are pending in one loop iteration.
MaxMsgs == 1

\* At most MaxFrames animation frames are drawn in a run.
MaxFrames == 1

GeoPayloads == {"arrive", "Settled", "leave", "driving", "pulse", "missyou", "hello"}

RECURSIVE SeqsUpTo(_, _)
SeqsUpTo(set, n) ==
  IF n = 0 THEN {<< >>}
  ELSE LET shorter == SeqsUpTo(set, n - 1)
       IN  shorter \cup {Append(q, x) : q \in shorter, x \in set}

Txt(text) == [t |-> "str", v |-> text]
Num(n) == [t |-> "int", v |-> n]

Cmd(action, value, secret) ==
  [type |-> "WS_EVT_DATA", whole |-> TRUE, parsed |-> TRUE,
   doc |-> [action |-> action, value |-> value, secret |-> secret]]

SetColorCmds ==
  { Cmd(Txt("setcolor"), Txt("#1A2B3C"), Absent),
    Cmd(Txt("SetColor"), Txt("#1a2b3c"), Absent),
    Cmd(Txt("setcolor"), Txt("off"), Absent),
    Cmd(Txt("setcolor"), Txt("#12345G"), Absent),
    Cmd(Txt("setcolor"), Txt("blue"), Absent),
    Cmd(Txt("setcolor"), Num(255), Absent),
    Cmd(Txt("setcolor"), Absent, Absent) }

SetBrightnessCmds ==
  { Cmd(Txt("setbrightness"), Num(-5), Absent),
    Cmd(Txt("setbrightness"), Num(40), Absent),
    Cmd(Txt("setbrightness"), Num(999), Absent),
    Cmd(Txt("setbrightness"), Txt("high"), Absent),
    Cmd(Txt("setbrightness"), Absent, Absent) }

SetModeCmds ==
  { Cmd(Txt("setmode"), Txt("breath"), Absent),
    Cmd(Txt("setmode"), Txt("Favorite"), Absent),
    Cmd(Txt("setmode"), Txt("night"), Absent),
    Cmd(Txt("setmode"), Txt("weather"), Absent),
    Cmd(Txt("setmode"), Txt("disco"), Absent),
    Cmd(Txt("setmode"), Num(2), Absent),
    Cmd(Txt("setmode"), Absent, Absent) }

PulseCmds ==
  { Cmd(Txt("privatepulse"), Absent, Txt(PRIVATE_PULSE_CODE)),
    Cmd(Txt("privatepulse"), Absent, Txt("guess")),
    Cmd(Txt("privatepulse"), Absent, Num(0)),
    Cmd(Txt("privatepulse"), Absent, Absent) }

GetStateCmd == Cmd(Txt("getstate"), Absent, Absent)

UnknownCmds ==
  { Cmd(Txt("dance"), Absent, Absent),
    Cmd(Txt("dance"), Txt("#1A2B3C"), Txt(PRIVATE_PULSE_CODE)),
    Cmd(Txt("reset"), Num(7), Absent),
    Cmd(Num(1), Txt("night"), Absent),
    Cmd(Absent, Txt("night"), Absent) }

BrokenFrames ==
  { [type |-> "WS_EVT_DATA", whole |-> FALSE, parsed |-> TRUE, doc |-> GetStateCmd.doc],
    [type |-> "WS_EVT_DATA", whole |-> TRUE, parsed |-> FALSE, doc |-> GetStateCmd.doc],
    [type |-> "WS_EVT_PONG", whole |-> TRUE, parsed |-> TRUE, doc |-> GetStateCmd.doc] }

Connect ==
  [type |-> "WS_EVT_CONNECT", whole |-> TRUE, parsed |-> TRUE, doc |-> GetStateCmd.doc]

WsEvents ==
  SetColorCmds \cup SetBrightnessCmds \cup SetModeCmds \cup PulseCmds
    \cup UnknownCmds \cup BrokenFrames \cup {GetStateCmd, Connect}

\* What a call of updateWeather can meet.
NoWeather ==
  [due |-> FALSE, wifi |-> TRUE, http |-> TRUE, json |-> TRUE,
   main |-> Absent, temp |-> Absent]

WeatherOffline == [NoWeather EXCEPT !.due = TRUE, !.wifi = FALSE]

WeatherClear == [NoWeather EXCEPT !.due = TRUE, !.main = Txt("Clear"), !.temp = Num(72)]

\* What a kernel call can meet.
KIdle ==
  [due |-> FALSE, dueColor |-> FALSE, isDay |-> TRUE, hit |-> FALSE,
   pos |-> 0, pos2 |-> 0, pos3 |-> 0, hue |-> 0]

KFrame == [KIdle EXCEPT !.due = TRUE, !.dueColor = TRUE]

KColor == [KIdle EXCEPT !.dueColor = TRUE]

KNight == [KFrame EXCEPT !.isDay = FALSE]

KHit == [KFrame EXCEPT !.hit = TRUE, !.pos = 3, !.pos2 = 4, !.pos3 = 9, !.hue = 21845]

\* The days the wall clock goes through, in order and round again (the days
\* between two of them are like the unmarked day that follows each).
Christmas == [month |-> 12, day |-> 25]
BoxingDay == [month |-> 12, day |-> 26]
Anniversary == [month |-> 8, day |-> 7]
DayAfterAnniversary == [month |-> 8, day |-> 8]

NextDay(cycle, d) ==
  LET i == CHOOSE j \in 1..Len(cycle) : cycle[j] = d
  IN  cycle[(i % Len(cycle)) + 1]

(***************************************************************************)
(* Initial state: the globals as declared, then setup()                    *)
(***************************************************************************)
Globals ==
  [ currentEffect |-> EFFECT_BREATH, currentGeoState |-> GEO_NONE,
    currentWeatherCondition |-> "Unknown", currentTemperature |-> 0,
    sinceStateStart |-> 0,
    animPos |-> 0, animBrightness |-> 0, animStep |-> 8,
    pulseStep |-> 0, brightnessStep |-> 5, brightness |-> 50,
    stateDuration |-> 0, lastButtonState |-> HIGH,
    staticColorBrightness |-> 255,
    lastPlayedDay |-> [i \in 0..(numDates - 1) |-> -1],
    dateActive |-> FALSE, activeEventIndex |-> -1, drivingOn |-> FALSE,
    pixels |-> [i \in Pix |-> 0], stripBrightness |-> 0,
    sent |-> << >>, reply |-> << >>, rendered |-> << >>, frames |-> 0,
    startsToday |-> 0 ]

\* setup(): ends with a first checkStartDate().
setup(s, ok, date) == checkStartDate(s, ok, date)

Holds(t) ==
  /\ currentEffect = t.currentEffect
  /\ currentGeoState = t.currentGeoState
  /\ currentWeatherCondition = t.currentWeatherCondition
  /\ currentTemperature = t.currentTemperature
  /\ sinceStateStart = t.sinceStateStart
  /\ animPos = t.animPos
  /\ animBrightness = t.animBrightness
  /\ animStep = t.animStep
  /\ pulseStep = t.pulseStep
  /\ brightnessStep = t.brightnessStep
  /\ brightness = t.brightness
  /\ stateDuration = t.stateDuration
  /\ lastButtonState = t.lastButtonState
  /\ staticColorBrightness = t.staticColorBrightness
  /\ lastPlayedDay = t.lastPlayedDay
  /\ dateActive = t.dateActive
  /\ activeEventIndex = t.activeEventIndex
  /\ drivingOn = t.drivingOn
  /\ pixels = t.pixels
  /\ stripBrightness = t.stripBrightness
  /\ sent = t.sent
  /\ reply = t.reply
  /\ rendered = t.rendered
  /\ frames = t.frames
  /\ startsToday = t.startsToday

\* The state after setup(), on one of the days, with the clock set or not.
InitOf(days, valid) ==
  /\ today \in days
  /\ timeValid \in valid
  /\ dateSeen = timeValid
  /\ loopAt = "top"
  /\ Holds(setup(Globals, timeValid, today))

(***************************************************************************)
(* Actions.  Each takes the inputs the environment may offer.              *)
(***************************************************************************)
\* A WebSocket event is handled.
WsEventOf(events) ==
  \E ev \in events :
    /\ Commit(onWsEvent(Begin(S), ev))
    /\ UNCHANGED << envVars, taskVars >>

\* Kernel gates stay shut once the run's frames are drawn.
KernelsAt(s, P) ==
  IF s.frames >= P.maxFrames THEN {k \in P.kernels : ~k.due /\ ~k.dueColor}
  ELSE P.kernels

\* One iteration of loop(): P.payloads and P.maxMsgs (the pending geofence
\* messages), P.buttons (the level of the button pin), P.checks (the date
\* check is due or not), P.weathers and P.kernels.
LoopOf(P) ==
  \E msgs \in SeqsUpTo(P.payloads, P.maxMsgs),
     currentButtonState \in P.buttons, checking \in P.checks :
    LET pressed == lastButtonState = HIGH /\ currentButtonState = LOW
    IN  \E w1 \in (IF pressed THEN P.weathers ELSE {NoWeather}),
           w2 \in (IF checking THEN P.weathers ELSE {NoWeather}),
           k \in KernelsAt(S, P) :
          /\ Commit(loop(Begin(S),
                         [msgs |-> msgs, currentButtonState |-> currentButtonState,
                          w1 |-> w1, checking |-> checking, ok |-> timeValid,
                          date |-> today, w2 |-> w2, k |-> k]))
          /\ dateSeen' = (dateSeen \/ (checking /\ timeValid))
          /\ UNCHANGED << today, timeValid, taskVars >>

\* TimeStep milliseconds pass while an override is present.
TimePasses ==
  /\ currentGeoState # GEO_NONE
  /\ sinceStateStart < MAX_STATE_DURATION
  /\ sinceStateStart' = Elapse(S, TimeStep).sinceStateStart
  /\ UNCHANGED << lampVars, envVars, outVars, histVars, taskVars >>

\* The wall clock is set (NTP), once.
ClockSet ==
  /\ ~timeValid
  /\ timeValid' = TRUE
  /\ dateSeen' = FALSE
  /\ UNCHANGED << progVars, outVars, histVars, today, taskVars >>

\* The date changes; a day is long enough for a date check to see it.
MidnightOf(cycle) ==
  /\ timeValid => dateSeen
  /\ today' = NextDay(cycle, today)
  /\ dateSeen' = FALSE
  /\ startsToday' = 0
  /\ UNCHANGED << progVars, outVars, timeValid, taskVars >>

(***************************************************************************)
(* Spec: the arbitration of the four drivers (special date, geofence       *)
(* override, private pulse, baseline mode) over two days                   *)
(***************************************************************************)
ArbDays == << Christmas, BoxingDay >>

ArbEvents ==
  { Cmd(Txt("setcolor"), Txt("#1A2B3C"), Absent),
    Cmd(Txt("setmode"), Txt("night"), Absent),
    GetStateCmd }

Arb ==
  [ payloads |-> {"arrive", "Settled", "pulse"},
    maxMsgs |-> MaxMsgs,
    buttons |-> {HIGH, LOW},
    checks |-> BOOLEAN,
    weathers |-> {NoWeather},
    kernels |-> {KIdle},
    maxFrames |-> MaxFrames ]

Init == InitOf({ArbDays[i] : i \in 1..Len(ArbDays)}, BOOLEAN)

WsEvent == WsEventOf(ArbEvents)

Loop == LoopOf(Arb)

Midnight == MidnightOf(ArbDays)

Next == WsEvent \/ Loop \/ TimePasses \/ ClockSet \/ Midnight

Spec == Init /\ [][Next]_vars

(***************************************************************************)
(* SpecCmd: every kind of WebSocket event, against the states one day of   *)
(* button presses, arrivals and frames leads to                            *)
(***************************************************************************)
Quiet ==
  [ payloads |-> {"arrive"},
    maxMsgs |-> MaxMsgs,
    buttons |-> {HIGH, LOW},
    checks |-> {FALSE},
    weathers |-> {NoWeather},
    kernels |-> {KIdle, KFrame},
    maxFrames |-> MaxFrames ]

InitCmd == InitOf({Christmas}, {TRUE})

WsEventCmd == WsEventOf(WsEvents)

LoopCmd == LoopOf(Quiet)

NextCmd == WsEventCmd \/ LoopCmd

SpecCmd == InitCmd /\ [][NextCmd]_vars

(***************************************************************************)
(* Properties                                                              *)
(***************************************************************************)
\* The lighting state of s: everything but what the step sent and entered.
Lamp(s) ==
  [f \in (DOMAIN s) \ {"sent", "reply", "rendered", "frames", "startsToday"} |-> s[f]]

GeoKernelOf(g) ==
  CASE g = GEO_ARRIVED -> "runArrive"
    [] g = GEO_SETTLED -> "runSettled"
    [] g = GEO_LEAVE -> "runLeave"
    [] g = GEO_DRIVING -> "runDriving"

GeoKernels == {GeoKernelOf(g) : g \in {GEO_ARRIVED, GEO_SETTLED, GEO_LEAVE, GEO_DRIVING}}

BaselineKernelOf(e) ==
  CASE e = EFFECT_BREATH -> "favColor"
    [] e = EFFECT_FAVORITE -> "runGenerativeSparkle"
    [] e = EFFECT_NIGHT -> "runNightMode"
    [] e = EFFECT_WEATHER -> "runWeatherMode"

\* The kernels of the driver the priority order selects in s: special date,
\* then geofence override, then private pulse, then the baseline mode (the
\* Static mode holds its color and has no kernel).
DriverKernels(s) ==
  IF s.dateActive THEN << "runActiveSpecialAnimation" >>
  ELSE IF s.currentGeoState # GEO_NONE THEN << GeoKernelOf(s.currentGeoState) >>
  ELSE IF s.currentEffect = EFFECT_PRIVATE_PULSE THEN << "privatePulse" >>
  ELSE IF s.currentEffect = EFFECT_STATIC THEN << >>
  ELSE << BaselineKernelOf(s.currentEffect) >>

Tick(s, msgs, currentButtonState, checking, k) ==
  loop(Begin(s),
       [msgs |-> msgs, currentButtonState |-> currentButtonState, w1 |-> NoWeather,
        checking |-> checking, ok |-> timeValid, date |-> today, w2 |-> NoWeather,
        k |-> k])

\* A tick that meets no message, no button press and no date check.
QuietTick(s, k) == Tick(s, << >>, s.lastButtonState, FALSE, k)

Unplayed(date) ==
  /\ matchingIndexOf(date) >= 0
  /\ lastPlayedDay[matchingIndexOf(date)] # date.day

\* C3: with a geofence override present, a date check that finds a matching
\* unplayed date makes the tick enter the special-date kernel and keeps the
\* override; while the special date is active every tick enters its kernel
\* and keeps the override; and the tick in which the special date ends (the
\* button cancels it, or a check finds the date over) enters the kernel of
\* the override again.
C3_DateOverOverride ==
  currentGeoState # GEO_NONE =>
    \A k \in {KIdle, KFrame}, currentButtonState \in {HIGH, LOW}, checking \in BOOLEAN :
      LET t == Tick(S, << >>, currentButtonState, checking, k)
      IN  /\ (~dateActive /\ checking /\ timeValid /\ Unplayed(today)) =>
                t.dateActive
          /\ t.dateActive =>
                /\ t.rendered = << "runActiveSpecialAnimation" >>
                /\ t.currentGeoState = currentGeoState
                /\ t.sinceStateStart = sinceStateStart
          /\ (dateActive /\ ~t.dateActive) =>
                t.rendered = << GeoKernelOf(currentGeoState) >>

\* C3's case: on Christmas Day the event was played and cancelled, and a tick
\* that met the cancelling press entered the kernel of an override that is
\* older than the tick.
C3_Witness ==
  /\ today = Christmas
  /\ lastPlayedDay[matchingIndexOf(Christmas)] = Christmas.day
  /\ ~dateActive
  /\ currentGeoState = GEO_ARRIVED
  /\ sinceStateStart > 0
  /\ rendered = << "runArrive" >>
  /\ Len(sent) = 1
  /\ lastButtonState = LOW

\* C4: startSpecialEvent runs at most once between two changes of the date,
\* and once it has run, a date check on that day does not run it again,
\* whether the event is still running or was cancelled.
C4_OncePerDay ==
  /\ startsToday <= 1
  /\ startsToday = 1 => checkStartDate(S, timeValid, today).startsToday = 1

\* C4's case: on Christmas Day the event was started and cancelled, the
\* button is released again and a date check has read the date.
C4_Witness ==
  /\ today = Christmas
  /\ startsToday = 1
  /\ ~dateActive
  /\ dateSeen
  /\ lastButtonState = HIGH
  /\ rendered = << "favColor" >>

\* What the handler makes of s and the event.
After(s, ev) == onWsEvent(Begin(s), ev)

ColorsTried == {"#1A2B3C", "#000000", "#FFFFFF", "#0000FF"}

\* C6: in every reachable state, setcolor with #RRGGBB and then getstate
\* answers with mode static and the color that was asked for.
C6_SetColorRoundTrip ==
  \A c \in ColorsTried :
    LET t1 == After(S, Cmd(Txt("setcolor"), Txt(c), Absent))
        t2 == After(t1, GetStateCmd)
    IN  /\ Len(t2.reply) = 1
        /\ t2.reply[1].mode = "static"
        /\ t2.reply[1].color = c

\* C6's case: setcolor #1A2B3C was handled on a strip that the Night kernel
\* has dimmed to 30, and the snapshot names #182939.
C6_Witness ==
  /\ currentEffect = EFFECT_STATIC
  /\ stripBrightness = 31
  /\ Len(sent) = 1
  /\ sent[1].mode = "static"
  /\ sent[1].color = "#182939"

BrightnessTried == {-300, -5, -1, 0, 1, 40, 254, 255, 256, 999}

\* C7: the stored static brightness is within 0..255 in every reachable
\* state, and setbrightness v stores v clamped to 0..255.
C7_BrightnessClamp ==
  /\ staticColorBrightness \in 0..255
  /\ \A v \in BrightnessTried :
       After(S, Cmd(Txt("setbrightness"), Num(v), Absent)).staticColorBrightness
         = (IF v < 0 THEN 0 ELSE IF v > 255 THEN 255 ELSE v)

\* C7's case: a setbrightness below the range was handled in the Static
\* mode: the stored brightness is 0 and one snapshot with it was broadcast.
C7_Witness ==
  /\ staticColorBrightness = 0
  /\ currentEffect = EFFECT_STATIC
  /\ Len(sent) = 1
  /\ sent[1].brightness = 0

\* C8: in every reachable state a command with an action that is none of
\* setcolor, setbrightness, setmode, getstate, privatepulse (or with none)
\* leaves the lighting state as it is and sends no snapshot, to no one.
C8_UnknownActionIgnored ==
  \A ev \in UnknownCmds :
    LET t == After(S, ev)
    IN  /\ Lamp(t) = Lamp(S)
        /\ t.sent = << >>
        /\ t.reply = << >>

\* C8's case: in the Night mode, with no special date and no override, the
\* last step entered no kernel and sent nothing: it was an ignored event.
C8_Witness ==
  /\ currentEffect = EFFECT_NIGHT
  /\ ~dateActive
  /\ currentGeoState = GEO_NONE
  /\ sent = << >> /\ reply = << >> /\ rendered = << >>

InvalidValueCmds ==
  { Cmd(Txt("setcolor"), Txt("#12345G"), Absent),
    Cmd(Txt("setcolor"), Txt("blue"), Absent),
    Cmd(Txt("setcolor"), Num(255), Absent),
    Cmd(Txt("setcolor"), Absent, Absent),
    Cmd(Txt("setbrightness"), Txt("high"), Absent),
    Cmd(Txt("setbrightness"), Absent, Absent),
    Cmd(Txt("setmode"), Txt("disco"), Absent),
    Cmd(Txt("setmode"), Num(2), Absent),
    Cmd(Txt("setmode"), Absent, Absent) }

\* C9: in every reachable state a setcolor, setbrightness or setmode with an
\* invalid value leaves the lighting state (mode, frame buffer, stored
\* brightness) as it is.
C9_InvalidValueIgnored ==
  \A ev \in InvalidValueCmds : Lamp(After(S, ev)) = Lamp(S)

\* C9's case: setcolor "#12345G" was handled: the strip holds #012345.
C9_Witness ==
  /\ currentEffect = EFFECT_STATIC
  /\ Len(sent) = 1
  /\ sent[1].color = "#012345"

SecretsTried ==
  { Txt(PRIVATE_PULSE_CODE), Txt("guess"), Txt(""), Txt("s3cre"), Txt("s3cret "),
    Txt("S3CRET"), Num(0), Absent }

\* C10: in every reachable state a privatepulse with the pre-shared code
\* enters the Pulse mode (from its first step, with one broadcast), and one
\* with any other secret, or none, changes nothing and sends nothing.
C10_PulseNeedsSecret ==
  \A secret \in SecretsTried :
    LET t == After(S, Cmd(Txt("privatepulse"), Absent, secret))
    IN  IF IsCString(secret) /\ secret.v = PRIVATE_PULSE_CODE
          THEN /\ t.currentEffect = EFFECT_PRIVATE_PULSE
               /\ t.pulseStep = 0
               /\ t.sent = << getCurrentStateJson(t) >>
          ELSE /\ Lamp(t) = Lamp(S)
               /\ t.sent = << >>
               /\ t.reply = << >>

\* C10's case: a privatepulse with the code was handled: the mode is Pulse
\* and one snapshot of it was broadcast by a step that entered no kernel.
C10_Witness ==
  /\ currentEffect = EFFECT_PRIVATE_PULSE
  /\ pulseStep = 0
  /\ Len(sent) = 1
  /\ sent[1].mode = "pulse"
  /\ rendered = << >>

\* The mode that follows e in the rotation of the button.
RotationAfter(e) ==
  CASE e = EFFECT_BREATH -> EFFECT_FAVORITE
    [] e = EFFECT_FAVORITE -> EFFECT_NIGHT
    [] e = EFFECT_NIGHT -> EFFECT_WEATHER
    [] e = EFFECT_WEATHER -> EFFECT_BREATH

\* A tick of s that meets a button press and nothing else.
PressTick(s, k) == Tick(s, << >>, LOW, FALSE, k)

\* C11: in every reachable state with the button up, a press does one of
\* three things: with a special date active it cancels the event, marks it
\* played on its day and leaves the mode as it is (the Pulse mode too);
\* otherwise in the Pulse mode it sets the mode to Breath; otherwise it moves
\* the mode to one of the rotation, the next one for a mode of the rotation.
\* Each broadcasts one snapshot.
C11_ButtonPriority ==
  lastButtonState = HIGH =>
    \A k \in {KIdle, KFrame} :
      LET t == PressTick(S, k)
      IN  /\ t.lastButtonState = LOW
          /\ ~t.dateActive
          /\ Len(t.sent) >= 1
          /\ IF dateActive THEN
                /\ t.activeEventIndex = -1
                /\ t.lastPlayedDay =
                     [lastPlayedDay EXCEPT ![activeEventIndex] = dates[activeEventIndex + 1].day]
                /\ t.currentEffect = currentEffect
              ELSE
                /\ t.lastPlayedDay = lastPlayedDay
                /\ IF currentEffect = EFFECT_PRIVATE_PULSE
                     THEN t.currentEffect = EFFECT_BREATH
                     ELSE /\ t.currentEffect # currentEffect
                          /\ t.currentEffect \in
                               {EFFECT_BREATH, EFFECT_FAVORITE, EFFECT_NIGHT, EFFECT_WEATHER}
                          /\ currentEffect # EFFECT_STATIC =>
                                t.currentEffect = RotationAfter(currentEffect)

\* C11's case: on Christmas Day a tick met a press with the event running in
\* the Pulse mode: the event is cancelled and marked played, one snapshot
\* went out and the mode is still Pulse.
C11_Witness ==
  /\ today = Christmas
  /\ ~dateActive
  /\ lastPlayedDay[matchingIndexOf(Christmas)] = Christmas.day
  /\ currentEffect = EFFECT_PRIVATE_PULSE
  /\ lastButtonState = LOW
  /\ Len(sent) = 1
  /\ rendered = << "privatePulse" >>

\* C12: in every reachable state with the button up, no special date and a
\* mode other than Pulse, a press moves Breath to Favorite, Favorite to
\* Night, Night to Weather and Weather to Breath, and moves Static to one of
\* these four (Favorite): the mode after it is never Static or Pulse.
C12_ButtonRotation ==
  (lastButtonState = HIGH /\ ~dateActive /\ currentEffect # EFFECT_PRIVATE_PULSE) =>
    \A k \in {KIdle, KFrame} :
      LET t == PressTick(S, k)
      IN  /\ t.currentEffect \notin {EFFECT_STATIC, EFFECT_PRIVATE_PULSE}
          /\ t.currentEffect =
               (IF currentEffect = EFFECT_STATIC THEN EFFECT_FAVORITE
                ELSE RotationAfter(currentEffect))

\* C12's case: a press has moved the mode to Weather, which only the
\* rotation out of Night reaches here, and one snapshot of it went out.
C12_Witness ==
  /\ currentEffect = EFFECT_WEATHER
  /\ ~dateActive
  /\ lastButtonState = LOW
  /\ Len(sent) = 1
  /\ sent[1].mode = "weather"

\* '#' and six hexadecimal digits.
IsHexColor(str) ==
  /\ Len(str) = 7
  /\ Chr(str, 1) = "#"
  /\ \A i \in 2..7 : IndexOf(Chr(str, i), HexChars) > 0

\* The members of a snapshot: mode and brightness, color exactly in the
\* Static mode, weather exactly in the Weather mode.
SnapshotShape(j) ==
  /\ {"mode", "brightness"} \subseteq DOMAIN j
  /\ DOMAIN j \subseteq {"mode", "brightness", "color", "weather"}
  /\ "color" \in DOMAIN j <=> j.mode = "static"
  /\ "weather" \in DOMAIN j <=> j.mode = "weather"
  /\ "color" \in DOMAIN j => IsHexColor(j.color)

\* C13: in every reachable state the snapshot names the mode and the
\* brightness, has a color (a 6-hex-digit string) exactly when the mode is
\* Static and a weather exactly when the mode is Weather; so has every
\* snapshot the last step sent.
C13_SnapshotFields ==
  /\ LET j == getCurrentStateJson(S)
     IN  /\ SnapshotShape(j)
         /\ j.mode = modeName(currentEffect)
         /\ "color" \in DOMAIN j <=> currentEffect = EFFECT_STATIC
         /\ "weather" \in DOMAIN j <=> currentEffect = EFFECT_WEATHER
  /\ \A i \in 1..Len(sent) : SnapshotShape(sent[i])
  /\ \A i \in 1..Len(reply) : SnapshotShape(reply[i])

\* C13's case: a client was answered in the Static mode, on a strip the
\* Night kernel had dimmed: the snapshot has a mode, a brightness and a
\* color, and no weather.
C13_Witness ==
  /\ currentEffect = EFFECT_STATIC
  /\ Len(reply) = 1
  /\ DOMAIN reply[1] = {"mode", "brightness", "color"}
  /\ currentWeatherCondition = "Unknown"
  /\ stripBrightness = 31

\* What a client can tell of the lamp: the mode (the Pulse mode is one), the
\* geofence override and the special event.
Observable(s) ==
  << s.currentEffect, s.currentGeoState, s.dateActive, s.activeEventIndex >>

\* From s to t the program has broadcast a snapshot if what a client can
\* tell has changed, and the last snapshot names the mode of t.
Announced(s, t) ==
  Observable(s) # Observable(t) =>
    /\ Len(t.sent) > Len(s.sent)
    /\ t.sent[Len(t.sent)].mode = modeName(t.currentEffect)

\* The states an iteration of loop() goes through: before it, after the
\* geofence feed, after the button block, after the date check and after
\* the dispatch.
Stages(s, msgs, currentButtonState, checking, k) ==
  LET s0 == Begin(s)
      s1 == MqttIncoming(s0, msgs)
      s2 == ButtonLogic(s1, currentButtonState, NoWeather)
      s3 == DateCheck(s2, checking, timeValid, today, NoWeather)
      s4 == Dispatch(s3, k)
  IN  << s0, s1, s2, s3, s4 >>

\* C14: in every reachable state, each block of an iteration of loop() (one
\* geofence message, the button, the date check, the dispatch with its
\* expiry) and each WebSocket event that changes the mode, the override or
\* the special event has broadcast a snapshot of the new mode by its end,
\* before the next block runs, whether or not the dispatch draws a frame.
C14_TransitionsAnnounced ==
  /\ \A msgs \in {<< >>, << "arrive" >>, << "leave" >>, << "missyou" >>} :
       \A b \in {HIGH, LOW} : \A checking \in BOOLEAN :
         LET st == Stages(S, msgs, b, checking, KIdle)
         IN  \A i \in 1..(Len(st) - 1) : Announced(st[i], st[i + 1])
  /\ Announced(Begin(S), Dispatch(Begin(S), KFrame))
  /\ \A ev \in WsEvents : Announced(Begin(S), After(S, ev))

\* C14's case: one iteration met an arrival and then a press: the override
\* started and the mode moved, and two snapshots went out, the first with
\* the mode before the press and the second with the mode after it.
C14_Witness ==
  /\ currentGeoState = GEO_ARRIVED
  /\ sinceStateStart = 0
  /\ ~dateActive
  /\ Len(sent) = 2
  /\ sent[1].mode # sent[2].mode
  /\ sent[2].mode = modeName(currentEffect)
  /\ rendered = << "runArrive" >>

\* C15: in every reachable state, a geofence message that is none of
\* arrive, settled, leave, driving, pulse and missyou in any case leaves the
\* lamp (the override, its timer, the mode, the cursors, the strip) as it
\* is and broadcasts no snapshot.
C15_UnknownPayloadSilent ==
  \A payload \in {"hello", "arrived", "HOME"} :
    LET t == handleGeofence(Begin(S), payload)
    IN  /\ Lamp(t) = Lamp(S)
        /\ t.sent = << >>

C17_PulseAndDateStay ==
  /\ currentEffect = EFFECT_PRIVATE_PULSE =>
        /\ \A ev \in WsEvents : After(S, ev).currentEffect = EFFECT_PRIVATE_PULSE
        /\ \A msgs \in {<< >>} \cup {<< p >> : p \in GeoPayloads} :
             \A checking \in BOOLEAN : \A k \in {KIdle, KFrame} :
               Tick(S, msgs, lastButtonState, checking, k).currentEffect
                 = EFFECT_PRIVATE_PULSE
  /\ dateActive =>
        /\ \A ev \in WsEvents : After(S, ev).dateActive
        /\ \A msgs \in {<< >>} \cup {<< p >> : p \in GeoPayloads} :
             \A checking \in BOOLEAN : \A k \in {KIdle, KFrame} :
               (checking /\ timeValid => matchingIndexOf(today) >= 0) =>
                 Tick(S, msgs, lastButtonState, checking, k).dateActive

\* C18: in every reachable state, whatever an iteration of loop() meets (a
\* geofence message, a press, a date check), a special date active or not,
\* it does not end with an override present whose duration has elapsed.
C18_ExpiryEveryTick ==
  \A msgs \in {<< >>, << "arrive" >>, << "Settled" >>} :
    \A b \in {HIGH, LOW} : \A checking \in BOOLEAN :
      LET t == Tick(S, msgs, b, checking, KIdle)
      IN  t.currentGeoState # GEO_NONE => t.sinceStateStart < t.stateDuration

\* C18 as the code has it: an iteration of loop() that ends with no special
\* date active does not end with an override present whose duration has
\* elapsed; one that ends with a special date active has not tested the
\* expiry: it leaves an override it met as it is, however old.
C18_ExpiryUnlessDate ==
  \A msgs \in {<< >>, << "arrive" >>, << "Settled" >>} :
    \A b \in {HIGH, LOW} : \A checking \in BOOLEAN :
      LET t == Tick(S, msgs, b, checking, KIdle)
      IN  IF t.dateActive
            THEN msgs = << >> =>
                   /\ t.currentGeoState = currentGeoState
                   /\ t.sinceStateStart = sinceStateStart
                   /\ t.stateDuration = stateDuration
            ELSE t.currentGeoState # GEO_NONE => t.sinceStateStart < t.stateDuration

\* C18's case: the special event is rendered over an Arrived override whose
\* 15 s have elapsed, and the override is still present.
C18_Witness ==
  /\ dateActive
  /\ currentGeoState = GEO_ARRIVED
  /\ stateDuration = MAX_STATE_DURATION
  /\ sinceStateStart >= stateDuration
  /\ rendered = << "runActiveSpecialAnimation" >>
  /\ sent = << >>

\* C19: in every reachable state, a settled message starts a Settled
\* override, and a Settled override stays through every iteration of loop()
\* that meets no geofence message, whatever time has passed since its start.
C19_SettledStays ==
  \A b \in {HIGH, LOW} : \A checking \in BOOLEAN : \A k \in {KIdle, KFrame} :
    /\ Tick(S, << "settled" >>, b, checking, k).currentGeoState = GEO_SETTLED
    /\ currentGeoState = GEO_SETTLED =>
          Tick(S, << >>, b, checking, k).currentGeoState = GEO_SETTLED

\* C19's case: the last iteration of loop() entered the Settled kernel,
\* found the 10 s of the override elapsed, cleared it and broadcast that.
C19_Witness ==
  /\ currentGeoState = GEO_NONE
  /\ stateDuration = 10000
  /\ sinceStateStart >= stateDuration
  /\ rendered = << "runSettled" >>
  /\ Len(sent) >= 1
  /\ sent[Len(sent)] = getCurrentStateJson(S)

\* C20: in every reachable state, each way into the Breath mode from
\* another mode leaves the Breath cursor at brightness 0 with step 5: a
\* setmode breath command, a press in the Pulse mode and a press in the
\* Weather mode (no special date active).
C20_BreathEntryResets ==
  /\ currentEffect # EFFECT_BREATH =>
        LET t == After(S, Cmd(Txt("setmode"), Txt("breath"), Absent))
        IN  /\ t.currentEffect = EFFECT_BREATH
            /\ t.brightness = 0
            /\ t.brightnessStep = 5
  /\ (lastButtonState = HIGH /\ ~dateActive
        /\ currentEffect \in {EFFECT_PRIVATE_PULSE, EFFECT_WEATHER}) =>
        LET t == PressTick(S, KIdle)
        IN  /\ t.currentEffect = EFFECT_BREATH
            /\ t.brightness = 0
            /\ t.brightnessStep = 5

\* C20's case: a press has moved the mode to Breath, and the cursor and the
\* snapshot that went out have brightness 60.
C20_Witness ==
  /\ currentEffect = EFFECT_BREATH
  /\ lastButtonState = LOW
  /\ brightness = 60
  /\ brightnessStep = 5
  /\ Len(sent) = 1
  /\ sent[1] = [mode |-> "breath", brightness |-> 60]

\* C21: in every reachable state in the Breath mode, an iteration of loop()
\* in which the Breath kernel is suppressed (a geofence message starts an
\* override, an override or a special date is rendered or ends, a date check
\* starts a special date) leaves the cursors of the Breath kernel
\* (brightness, its step, the hue phase animPos) as they are.
C21_BreathCursorsKept ==
  currentEffect = EFFECT_BREATH =>
    \A msgs \in {<< >>, << "arrive" >>, << "settled" >>, << "leave" >>, << "driving" >>} :
      \A checking \in BOOLEAN : \A k \in {KIdle, KFrame} :
        LET t == Tick(S, msgs, lastButtonState, checking, k)
        IN  (t.rendered # << "favColor" >>) =>
              << t.brightness, t.brightnessStep, t.animPos >>
                = << brightness, brightnessStep, animPos >>

\* C21's case: in the Breath mode an arrival has started an override and
\* the Arrive kernel has drawn a frame: the brightness the Breath kernel
\* fades with is the one of the Arrive fade.
C21_Witness ==
  /\ currentEffect = EFFECT_BREATH
  /\ currentGeoState = GEO_ARRIVED
  /\ ~dateActive
  /\ rendered = << "runArrive" >>
  /\ frames >= 1
  /\ brightness = 5
  /\ sent = << [mode |-> "breath", brightness |-> 0] >>

\* C22: from every reachable state with no special date active, after a
\* setcolor "#0000FF" whose snapshot reports that color, an arrival, the
\* frames of the Arrive kernel and the expiry of the override, Static is
\* the active driver again, the strip holds what the setcolor left on it and
\* the snapshot reports "#0000FF".
C22_StaticColorKept ==
  ~dateActive =>
    LET s1 == After(S, Cmd(Txt("setcolor"), Txt("#0000FF"), Absent))
        s2 == Tick(s1, << "arrive" >>, s1.lastButtonState, FALSE, KFrame)
        s3 == QuietTick(Elapse(s2, MAX_STATE_DURATION), KFrame)
    IN  getCurrentStateJson(s1).color = "#0000FF" =>
          /\ s3.currentEffect = EFFECT_STATIC
          /\ s3.currentGeoState = GEO_NONE
          /\ s3.pixels = s1.pixels
          /\ getCurrentStateJson(s3).color = "#0000FF"

\* C22's case: in the Static mode the last iteration of loop() entered the
\* Arrive kernel and expired the override: Static is the active driver, the
\* strip is dark and the snapshot that went out reports "#000000".
C22_Witness ==
  /\ currentEffect = EFFECT_STATIC
  /\ currentGeoState = GEO_NONE
  /\ ~dateActive
  /\ rendered = << "runArrive" >>
  /\ \A i \in DOMAIN pixels : pixels[i] = 0
  /\ Len(sent) >= 1
  /\ sent[Len(sent)].color = "#000000"

\* C23: in every reachable state, right after a setcolor "#1A2B3C" command
\* every pixel of the strip holds the color 0x1A2B3C and the brightness of
\* the strip is 255, whichever kernel drew before.
C23_SetColorFullBrightness ==
  LET t == After(S, Cmd(Txt("setcolor"), Txt("#1A2B3C"), Absent))
  IN  /\ getBrightness(t) = 255
      /\ \A i \in Pix : t.pixels[i] = Color(26, 43, 60)

\* C23's case: a setcolor "#1A2B3C" was handled on a strip the Night kernel
\* had dimmed to 30: the brightness of the strip is still 30 and the pixels
\* hold the color scaled down by it.
C23_Witness ==
  /\ currentEffect = EFFECT_STATIC
  /\ getBrightness(S) = 30
  /\ Len(sent) = 1
  /\ \A i \in Pix : pixels[i] = StoredColor(Color(26, 43, 60), stripBrightness)
  /\ pixels[0] # Color(26, 43, 60)

\* C24: in every reachable state, an iteration of loop() in which
\* updateWeather fetches nothing leaves currentWeatherCondition, and with
\* it the weather member of the snapshot, as it is, whichever kernel it
\* enters and whether or not the kernel draws a frame.
C24_WeatherReadOnly ==
  \A b \in {HIGH, LOW} : \A checking \in BOOLEAN : \A k \in {KIdle, KFrame, KNight} :
    LET t == Tick(S, << >>, b, checking, k)
    IN  /\ t.currentWeatherCondition = currentWeatherCondition
        /\ t.currentEffect = EFFECT_WEATHER =>
              getCurrentStateJson(t).weather = currentWeatherCondition

\* C24's case: the Weather kernel has drawn a frame and the condition of
\* boot, "Unknown", now reads "unknown".
C24_Witness ==
  /\ currentEffect = EFFECT_WEATHER
  /\ rendered = << "runWeatherMode" >>
  /\ frames >= 1
  /\ currentWeatherCondition = "unknown"
  /\ getCurrentStateJson(S).weather = "unknown"

\* C25: in every reachable state in which the Pulse kernel is the active
\* driver, after the frame it draws exactly one pixel of the strip is lit:
\* the one at the ping-pong index of the pulse step, which lies on the strip.
C25_PulseOnePixel ==
  (currentEffect = EFFECT_PRIVATE_PULSE /\ ~dateActive /\ currentGeoState = GEO_NONE) =>
    LET t == QuietTick(S, KFrame)
        phase == pulseStep % (NUM_LEDS * 2)
        index == IF phase < NUM_LEDS THEN phase ELSE (NUM_LEDS * 2 - 1) - phase
    IN  /\ t.rendered = << "privatePulse" >>
        /\ t.pulseStep = pulseStep + 1
        /\ index \in Pix
        /\ {i \in Pix : t.pixels[i] # 0} = {index}

\* C25's case: the Pulse kernel has drawn its first frame on a strip a
\* setcolor command had filled: pixel 0 has the pulse color and the other
\* pixels are still lit with the static color.
C25_Witness ==
  /\ currentEffect = EFFECT_PRIVATE_PULSE
  /\ rendered = << "privatePulse" >>
  /\ pulseStep = 1
  /\ pixels[0] = StoredColor(Color(255, 105, 180), stripBrightness)
  /\ \A i \in Pix \ {0} : pixels[i] # 0 /\ pixels[i] # pixels[0]

(***************************************************************************)
(* SpecRace: onWsEvent runs in the task of the asynchronous TCP library,   *)
(* loop() in the loop task, and the sketch takes no lock.  The loop task   *)
(* is split where it has read currentEffect for its dispatch and has not   *)
(* yet run the kernel it chose; the handler may run there.                 *)
(***************************************************************************)
\* The kernel the dispatch of loop() chooses by currentEffect in s, "top"
\* when it is a special date, an override or the Static mode.
chosenKernel(s) ==
  IF s.dateActive \/ s.currentGeoState # GEO_NONE \/ s.currentEffect = EFFECT_STATIC
    THEN "top"
    ELSE DriverKernels(s)[1]

\* The call the loop task makes from where it stands.
runChosen(name, s, k) ==
  CASE name = "privatePulse" -> privatePulse(s, k)
    [] name = "favColor" -> favColor(s, k)
    [] name = "runGenerativeSparkle" -> runGenerativeSparkle(s, k)
    [] name = "runNightMode" -> runNightMode(s, k)
    [] name = "runWeatherMode" -> runWeatherMode(s, k)

InitRace == InitOf({BoxingDay}, {TRUE})

\* The handler runs wherever the loop task stands.
WsEventRace == WsEventOf(SetColorCmds \cup SetModeCmds \cup PulseCmds)

\* loop() up to its dispatch: no geofence message, the button, no date
\* check; a dispatch that does not go by currentEffect runs to its end.
LoopEnter ==
  /\ loopAt = "top"
  /\ \E currentButtonState \in {HIGH, LOW} :
       LET s3 == ButtonLogic(Begin(S), currentButtonState, NoWeather)
       IN  IF chosenKernel(s3) = "top"
             THEN Commit(Dispatch(s3, KIdle)) /\ loopAt' = "top"
             ELSE Commit(s3) /\ loopAt' = chosenKernel(s3)
  /\ UNCHANGED envVars

\* The kernel the dispatch chose runs, on the state as it is by now.
LoopRun ==
  /\ loopAt # "top"
  /\ \E k \in KernelsAt(S, Quiet) : Commit(runChosen(loopAt, S, k))
  /\ loopAt' = "top"
  /\ UNCHANGED envVars

NextRace == WsEventRace \/ LoopEnter \/ LoopRun

SpecRace == InitRace /\ [][NextRace]_vars

\* C26: in every reachable state of the two tasks, a kernel of a mode that
\* the last step of loop() ran is the kernel of the mode the lamp is in: no
\* iteration of loop() has drawn for a mode that a command had replaced
\* before the kernel ran (the Static mode with a buffer drawn over by the
\* kernel of the mode before it).
C26_CommandsAtomic ==
  (rendered # << >> /\ rendered[1] \notin GeoKernels \cup {"runActiveSpecialAnimation"}) =>
    rendered = DriverKernels(S)

\* C26's case: the loop task chose the Breath kernel, a setcolor command
\* set the Static mode and filled the strip, and the Breath kernel then
\* drew its frame over the static color.
C26_Witness ==
  /\ loopAt = "top"
  /\ currentEffect = EFFECT_STATIC
  /\ rendered = << "favColor" >>
  /\ frames = 1
  /\ animPos = 1
  /\ pixels[0] = StoredColor(ColorHSV(favHue(0, 0), 155, U8(brightness)), stripBrightness)

\* C27: in every reachable state in which Christmas has been played or
\* cancelled on its day and a date check has since read another date, the
\* next date check that reads Christmas starts the event again.
C27_ReplayAfterDateChange ==
  (timeValid /\ dateSeen /\ today # Christmas
     /\ lastPlayedDay[matchingIndexOf(Christmas)] = Christmas.day) =>
    LET t == checkStartDate(Begin(S), TRUE, Christmas)
    IN  /\ ~dateActive
        /\ t.dateActive
        /\ t.activeEventIndex = matchingIndexOf(Christmas)

\* C27's case: it is Christmas again, a date check has read the date, and
\* the event has not been started since the date changed: the day of the
\* month stored at the Christmas before still equals today's.
C27_Witness ==
  /\ today = Christmas
  /\ timeValid
  /\ dateSeen
  /\ startsToday = 0
  /\ ~dateActive
  /\ lastPlayedDay[matchingIndexOf(Christmas)] = today.day

\* The frames of the Anniversary event that C28 follows.
MaxAnniFrames == 40

RECURSIVE framesOfEvent(_, _)
\* n frames of the running special event, each with its gate open.
framesOfEvent(s, n) ==
  IF n = 0 THEN s ELSE runActiveSpecialAnimation(framesOfEvent(s, n - 1), KFrame)

\* C28: from every reachable state, after the Anniversary event starts,
\* animBrightness lies in 0..255 after each of its first MaxAnniFrames
\* frames, so that the 8-bit value that scales the color is the cursor.
C28_AnniBrightnessInRange ==
  \A n \in 0..MaxAnniFrames :
    LET t == framesOfEvent(startSpecialEvent(Begin(S), matchingIndexOf(Anniversary)), n)
    IN  /\ t.animBrightness \in 0..255
        /\ U8(t.animBrightness) = t.animBrightness

(***************************************************************************)
(* The brightness cursor over whole fades                                  *)
(***************************************************************************)
\* The gates SpecFade leaves open.  brightness is written by the commands,
\* the button and the geofence branches, and advanced by three gated blocks
\* only: the pulse block of favColor (lastColorUpdate), runArrive and
\* runLeave.  Under an override the kernel's gate is open or shut; without
\* one the pulse gate of favColor is open or shut, and the gates of the
\* drawing blocks, which do not touch brightness, stay shut.
fadeGates(s) ==
  IF s.currentGeoState # GEO_NONE THEN {KIdle, [KIdle EXCEPT !.due = TRUE]}
  ELSE {KIdle, KColor}

InitFade == InitOf({BoxingDay}, {TRUE})

WsEventFade ==
  WsEventOf({Cmd(Txt("setmode"), Txt("breath"), Absent),
             Cmd(Txt("setmode"), Txt("night"), Absent)})

\* One iteration of loop(), with no date check due.  Fades run for as long
\* as the lamp is on, so SpecFade does not count the frames drawn.
LoopFade ==
  \E msgs \in SeqsUpTo({"arrive", "leave"}, MaxMsgs),
     currentButtonState \in {HIGH, LOW}, k \in fadeGates(S) :
    /\ Commit([loop(Begin(S),
                    [msgs |-> msgs, currentButtonState |-> currentButtonState,
                     w1 |-> NoWeather, checking |-> FALSE, ok |-> timeValid,
                     date |-> today, w2 |-> NoWeather, k |-> k])
                 EXCEPT !.frames = frames])
    /\ UNCHANGED << envVars, taskVars >>

NextFade == WsEventFade \/ LoopFade \/ TimePasses

SpecFade == InitFade /\ [][NextFade]_vars

\* C29: in every state reached by setmode commands, button presses, arrive
\* and leave messages, override expiries and kernel frames, taken as whole
\* operations in any order, brightness lies within 0..255, and so does the
\* brightness member of the snapshot in the Breath mode.
C29_BrightnessInRange ==
  /\ brightness \in 0..255
  /\ currentEffect = EFFECT_BREATH => getCurrentStateJson(S).brightness \in 0..255

\* C29's case: the Arrive fade has run from 0 up to the turn at 255.
C29_Witness ==
  /\ currentGeoState = GEO_ARRIVED
  /\ rendered = << "runArrive" >>
  /\ brightness = 255
  /\ brightnessStep = -5

====
